---- MODULE Spec2Model ----
(***************************************************************************)
(* Model of the dataset preprocessing pipeline of make_dataset.py:         *)
(* NewsQAPreprocessor.split_data, SquadPreprocessor.split_data,            *)
(* concatenate_data and the __main__ sequence that runs them.              *)
(*                                                                         *)
(* Text is modelled at character level: a Python str is the sequence of    *)
(* its characters.  A character of the ASCII range is the one-character    *)
(* string that holds it; any other character is the string "U+" followed   *)
(* by its code point in upper-case hexadecimal, four digits at least       *)
(* ("U+00E9", "U+2003"), so that the module holds ASCII only and reads     *)
(* the same under every file encoding.  A token is a sequence of           *)
(* characters, a sentence is a sequence of tokens.  A text file is the     *)
(* sequence of its lines (each without its terminating newline); every     *)
(* write of the program ends with a newline, so a file never holds an      *)
(* unterminated line.  A line may hold a carriage return, which a write    *)
(* keeps and a text-mode read takes for a line end.                        *)
(***************************************************************************)
EXTENDS Integers, Sequences, FiniteSets, TLC

VARIABLES
    stage,              \* position of __main__ / of the running split_data
    files,              \* the file system: path -> sequence of lines
    sentence_tokens,    \* the local sentence_tokens of the running split_data
    article,            \* NewsQA loop variable (l.152)
    question,           \* NewsQA loop variable (l.155)
    paragraph,          \* SQuAD loop variable (l.77)
    qa,                 \* SQuAD loop variable (l.91)
    exit,               \* how the last loop body or call ended
    nq,                 \* number of loop bodies run so far
    answer_start,       \* the locals the resolution loop reads, held in the
    sent_starts,        \* state by SpecResolve only (l.105 / l.172,
    context_sentences,  \* l.84-88 / l.163-167, l.81 / l.159)
    filenames,          \* the parameters of the last call of
    out_filename        \* concatenate_data (l.198)

vars == <<stage, files, sentence_tokens, article, question, paragraph, qa,
          exit, nq, answer_start, sent_starts, context_sentences,
          filenames, out_filename>>

(***************************************************************************)
(* Bounds of the model.                                                    *)
(***************************************************************************)
MaxQ == 2           \* loop bodies run in one pipeline run
MaxAnswers == 2     \* answers of one SQuAD question
MaxSents == 3       \* sentences of a passage given to the resolver
MaxOff == 4         \* largest character offset given to the resolver
MaxLines == 2       \* lines of an input file given to concatenate_data

(***************************************************************************)
(* Python built-ins used by the program.                                   *)
(***************************************************************************)
Min(a, b) == IF a < b THEN a ELSE b
Max(a, b) == IF a > b THEN a ELSE b

\* characters removed by str.strip() without argument: those of
\* str.isspace().  The ASCII ones are space, \t, \n, \r, \f and, written
\* as literal characters, U+000B and U+001C..U+001F.
Whitespace ==
    {" ", "\t", "\n", "\r", "\f", "", "", "", "", ""}
    \cup
    {"U+0085", "U+00A0", "U+1680", "U+2000", "U+2001", "U+2002", "U+2003",
     "U+2004", "U+2005", "U+2006", "U+2007", "U+2008", "U+2009", "U+200A",
     "U+2028", "U+2029", "U+202F", "U+205F", "U+3000"}

RECURSIVE LStrip(_, _)
LStrip(s, chars) ==
    IF s # <<>> /\ Head(s) \in chars THEN LStrip(Tail(s), chars) ELSE s

RECURSIVE RStrip(_, _)
RStrip(s, chars) ==
    IF s # <<>> /\ s[Len(s)] \in chars
    THEN RStrip(SubSeq(s, 1, Len(s) - 1), chars) ELSE s

\* str.strip(chars): removes the characters at BOTH ends
Strip(s, chars) == RStrip(LStrip(s, chars), chars)

\* seq[s:e] with Python's clamping and negative indices
SliceIndex(i, n) == IF i < 0 THEN Max(i + n, 0) ELSE Min(i, n)
Slice(s, b, e) == SubSeq(s, SliceIndex(b, Len(s)) + 1, SliceIndex(e, Len(s)))

\* ' '.join(tokens)
RECURSIVE Join(_)
Join(tokens) ==
    IF tokens = <<>> THEN <<>>
    ELSE IF Len(tokens) = 1 THEN tokens[1]
    ELSE tokens[1] \o <<" ">> \o Join(Tail(tokens))

\* str.find(pat): 0-based index of the first occurrence, -1 if none
RECURSIVE FindFrom(_, _, _)
FindFrom(s, pat, i) ==
    IF i + Len(pat) > Len(s) THEN -1
    ELSE IF SubSeq(s, i + 1, i + Len(pat)) = pat THEN i
    ELSE FindFrom(s, pat, i + 1)
Find(s, pat) == FindFrom(s, pat, 0)

\* the characters that encoding="utf-8" cannot encode: the surrogates
\* U+D800..U+DFFF, which json.load returns for a lone \ud800 escape
HexDigits ==
    {"0", "1", "2", "3", "4", "5", "6", "7", "8", "9", "A", "B", "C", "D",
     "E", "F"}
Surrogates ==
    {"U+D" \o a \o b \o c :
        a \in {"8", "9", "A", "B", "C", "D", "E", "F"},
        b \in HexDigits, c \in HexDigits}

\* file.write(text + "\n") on a file opened with encoding="utf-8": the
\* text is encoded by the call, which raises UnicodeEncodeError and adds
\* nothing when the text holds a surrogate (ok is FALSE), and otherwise
\* adds the lines that the characters make
RECURSIVE SplitLines(_, _, _)
SplitLines(text, cur, lines) ==
    IF text = <<>> THEN [ok |-> TRUE, lines |-> Append(lines, cur)]
    ELSE IF Head(text) \in Surrogates THEN [ok |-> FALSE, lines |-> <<>>]
    ELSE IF Head(text) = "\n"
         THEN SplitLines(Tail(text), <<>>, Append(lines, cur))
    ELSE SplitLines(Tail(text), Append(cur, Head(text)), lines)
WriteLn(text) == SplitLines(text, <<>>, <<>>)

\* the three write calls of one loop body, in order (l.117-119,
\* l.190-192): the first call that raises ends the body, the lines of the
\* calls before it stay in their files
WriteCalls(sentence, q, answer) ==
    LET s == WriteLn(sentence)
        w == WriteLn(q)
        a == WriteLn(answer)
    IN  [exit |-> IF s.ok /\ w.ok /\ a.ok THEN "written"
                  ELSE "UnicodeEncodeError",
         sentence |-> s.lines,
         question |-> IF s.ok THEN w.lines ELSE <<>>,
         answer |-> IF s.ok /\ w.ok THEN a.lines ELSE <<>>]

(***************************************************************************)
(* sent_starts (l.83-88, l.162-167): the start offset of the first token   *)
(* of every sentence; spans[num_tokens] raises IndexError when the         *)
(* sentences hold more tokens than spans has entries.                      *)
(***************************************************************************)
RECURSIVE SentStartsFrom(_, _, _, _)
SentStartsFrom(spans, sentences, num_tokens, acc) ==
    IF sentences = <<>> THEN [ok |-> TRUE, starts |-> acc]
    ELSE IF num_tokens + 1 > Len(spans) THEN [ok |-> FALSE, starts |-> acc]
    ELSE SentStartsFrom(spans, Tail(sentences),
                        num_tokens + Len(Head(sentences)),
                        Append(acc, spans[num_tokens + 1][1]))
SentStarts(spans, sentences) == SentStartsFrom(spans, sentences, 0, <<>>)

(***************************************************************************)
(* The resolution loop (l.107-111, l.175-179).  The local sentence_tokens  *)
(* is [bound |-> TRUE, val |-> v] once assigned; NewsQA never assigns it   *)
(* before the loop, SQuAD sets it to [] before every loop.                 *)
(***************************************************************************)
Unbound == [bound |-> FALSE, val |-> <<>>]
Bound(v) == [bound |-> TRUE, val |-> v]

\* mutation: the comparison answer_start > start instead of >=
RECURSIVE ResolveFromGt(_, _, _, _, _)
ResolveFromGt(idx, a_start, starts, sentences, cur) ==
    IF idx > Len(starts) THEN cur
    ELSE IF a_start > starts[idx]
         THEN ResolveFromGt(idx + 1, a_start, starts, sentences,
                            Bound(sentences[idx]))
         ELSE cur

RECURSIVE ResolveFrom(_, _, _, _, _)
ResolveFrom(idx, a_start, starts, sentences, cur) ==
    IF idx > Len(starts) THEN cur
    ELSE IF a_start >= starts[idx]
         THEN ResolveFrom(idx + 1, a_start, starts, sentences,
                          Bound(sentences[idx]))
         ELSE cur

ResolveLoop(a_start, starts, sentences, before) ==
    ResolveFrom(1, a_start, starts, sentences, before)

(***************************************************************************)
(* Inputs.  A passage is a text together with what the external            *)
(* collaborators of utils return for it: sent_tokenize(text) and           *)
(* convert_idx(text, word_tokenize(text)).                                 *)
(***************************************************************************)
\* "Cats sleep. Dogs run."
CatsDogs ==
    [text |-> <<"C", "a", "t", "s", " ", "s", "l", "e", "e", "p", ".", " ",
                "D", "o", "g", "s", " ", "r", "u", "n", ".">>,
     sentences |-> << << <<"C", "a", "t", "s">>, <<"s", "l", "e", "e", "p">>,
                         <<".">> >>,
                      << <<"D", "o", "g", "s">>, <<"r", "u", "n">>,
                         <<".">> >> >>,
     spans |-> << <<0, 4>>, <<5, 10>>, <<10, 11>>, <<12, 16>>, <<17, 20>>,
                  <<20, 21>> >>]

\* "  Hi.\nYo.\n"
Indented ==
    [text |-> <<" ", " ", "H", "i", ".", "\n", "Y", "o", ".", "\n">>,
     sentences |-> << << <<"H", "i">>, <<".">> >>,
                      << <<"Y", "o">>, <<".">> >> >>,
     spans |-> << <<2, 4>>, <<4, 5>>, <<6, 8>>, <<8, 9>> >>]

\* "(CNN) -- Go."
Dateline ==
    [text |-> <<"(", "C", "N", "N", ")", " ", "-", "-", " ", "G", "o", ".">>,
     sentences |-> << << <<"(">>, <<"C", "N", "N">>, <<")">>, <<"-", "-">>,
                         <<"G", "o">>, <<".">> >> >>,
     spans |-> << <<0, 1>>, <<1, 4>>, <<4, 5>>, <<6, 8>>, <<9, 11>>,
                  <<11, 12>> >>]

\* "Hi." whose sentence splitter returns a second, empty token group
EmptyGroup ==
    [text |-> <<"H", "i", ".">>,
     sentences |-> << << <<"H", "i">> >>, << >> >>,
     spans |-> << <<0, 2>>, <<2, 3>> >>]

\* "Hi." whose sentences hold more tokens than the word tokenizer returned
Overrun ==
    [text |-> <<"H", "i", ".">>,
     sentences |-> << << <<"H", "i">>, <<".">> >>, << <<"Y", "o">> >> >>,
     spans |-> << <<0, 2>>, <<2, 3>> >>]

NoInput == [none |-> TRUE]

Splits == {"train", "dev"}
Kinds == {"sentence", "question", "answer"}

\* config.newsqa_data_dir, config.squad_data_dir, config.out_dir
NewsqaDir == "newsqa_data_dir"
SquadDir == "squad_data_dir"
OutDir == "out_dir"

NewsQAPassages == {CatsDogs, Indented, Dateline}

\* article of self.data["data"] (l.152)
NewsQAArticles ==
    {[type |-> t, text |-> p.text, sentences |-> p.sentences,
      spans |-> p.spans] : t \in Splits, p \in NewsQAPassages}

\* question["consensus"] (l.156): an answer span, or no "s" key
Consensus ==
    {[noAnswer |-> TRUE], [s |-> 0, e |-> 4], [s |-> 1, e |-> 3],
     [s |-> 2, e |-> 8], [s |-> 6, e |-> 10]}

\* question["q"] (l.169): "W?", "no", " " and "\ud800?"
QuestionTexts == {<<"W", "?">>, <<"n", "o">>, <<" ">>, <<"U+D800", "?">>}

\* question of article["questions"] (l.155)
NewsQAQuestions ==
    {[isQuestionBad |-> b, consensus |-> c, q |-> t] :
        b \in {0, 1}, c \in Consensus, t \in QuestionTexts}

(***************************************************************************)
(* NewsQAPreprocessor.split_data, one body of the loop over the questions  *)
(* (l.153-192).  The result names the exit taken, the value of the local   *)
(* sentence_tokens afterwards and the lines added to each of the files     *)
(* (by the write calls that did not raise).                                *)
(***************************************************************************)
\* l.156: question.get("isQuestionBad") == 0 and question["consensus"].get("s")
PassesGate(qu) ==
    /\ qu.isQuestionBad = 0
    /\ "s" \in DOMAIN qu.consensus
    /\ qu.consensus.s # 0

\* l.173
NewsQAAnswer(art, qu) ==
    Strip(Strip(Slice(art.text, qu.consensus.s, qu.consensus.e),
                {".", "|", " "}), {"\n"})

\* l.184: the tokens stripped, the empty ones dropped
RECURSIVE StripTokens(_)
StripTokens(tokens) ==
    IF tokens = <<>> THEN <<>>
    ELSE LET t == Strip(Strip(Head(tokens), {"\n"}), Whitespace)
         IN  IF t = <<>> THEN StripTokens(Tail(tokens))
             ELSE <<t>> \o StripTokens(Tail(tokens))

CNNPrefix == <<"(", " ", "C", "N", "N", " ", ")", " ", "-", "-", " ">>

\* l.184-187
NewsQASent(tokens) ==
    LET sent == Join(StripTokens(tokens))
        index == Find(sent, CNNPrefix)
    IN  IF index > -1
        THEN SubSeq(sent, index + Len(CNNPrefix) + 1, Len(sent))
        ELSE sent

NoLines(ex, st) ==
    [exit |-> ex, sentence_tokens |-> st,
     sentence |-> <<>>, question |-> <<>>, answer |-> <<>>]

NewsQAQuestion(sub_dir, art, qu, before) ==
    IF art.type # sub_dir THEN NoLines("other_split", before)
    ELSE IF ~PassesGate(qu) THEN NoLines("gate", before)
    ELSE
    LET ss == SentStarts(art.spans, art.sentences)
        q == Strip(qu.q, Whitespace)
        after == ResolveLoop(qu.consensus.s, ss.starts, art.sentences, before)
    IN  IF ~ss.ok THEN NoLines("IndexError", before)
        ELSE IF q = <<>> THEN NoLines("IndexError", before)
        ELSE IF q[Len(q)] # "?" THEN NoLines("not_question", before)
        ELSE IF ~after.bound THEN NoLines("UnboundLocalError", after)
        ELSE IF after.val = <<>> THEN NoLines("Exception", after)
        ELSE LET w == WriteCalls(NewsQASent(after.val), q,
                                 NewsQAAnswer(art, qu))
             IN  [exit |-> w.exit, sentence_tokens |-> after,
                  sentence |-> w.sentence, question |-> w.question,
                  answer |-> w.answer]

(***************************************************************************)
(* SquadPreprocessor.split_data, one body of the loop over the qas of a    *)
(* paragraph (l.92-119).  A paragraph is the passage after clean_text; a   *)
(* qa holds word_tokenize(clean_text(.)) of its question and answers.      *)
(***************************************************************************)
SquadParagraphs == {CatsDogs, Indented, EmptyGroup, Overrun}

\* qa['answers'][i]: the tokens of its text and its answer_start; the
\* text of the answer at offset 2 ends with a lone surrogate
SquadAnswers ==
    {[tokens |-> << <<"C", "a", "t", "s">> >>, answer_start |-> 0],
     [tokens |-> << <<"r", "u", "n">> >>, answer_start |-> 17],
     [tokens |-> << <<"H", "i", "U+D800">> >>, answer_start |-> 2],
     [tokens |-> << <<"n", "o">> >>, answer_start |-> -1]}

AnswerLists ==
    UNION {[1..n -> SquadAnswers] : n \in 0..MaxAnswers}

SquadQuestionTokens == {<< <<"W", "h", "o">>, <<"?">> >>}

SquadQAs ==
    {[question |-> t, answers |-> a] :
        t \in SquadQuestionTokens, a \in AnswerLists}

\* l.95-99
AnswerIds(sub_dir, q) ==
    IF sub_dir = "train"
    THEN (IF q.answers # <<>> THEN 1 ELSE 0)
    ELSE Len(q.answers)

\* l.106-111: sentence_tokens after the loop for answer answer_id
SquadSentence(para, q, answer_id) ==
    ResolveLoop(q.answers[answer_id].answer_start,
                SentStarts(para.spans, para.sentences).starts,
                para.sentences, Bound(<<>>)).val

\* l.92-119.  The local sentence_tokens keeps the value it had before the
\* body when no answer is walked (l.86 raises, or answer_ids is 0); the
\* answer that raises at l.114 leaves it empty, a written body leaves in it
\* the sentence of the last answer walked.
\* mutation: the check of l.112-114 is missing, the body writes whatever
\* the loops left in sentence_tokens
SquadQANoRaise(sub_dir, para, q, before) ==
    LET answer_ids == AnswerIds(sub_dir, q)
    IN  IF ~SentStarts(para.spans, para.sentences).ok
        THEN NoLines("IndexError", before)
        ELSE IF answer_ids = 0 THEN NoLines("no_answer", before)
        ELSE LET w == WriteCalls(Join(SquadSentence(para, q, answer_ids)),
                                 Join(q.question),
                                 Join(q.answers[answer_ids].tokens))
             IN  [exit |-> w.exit,
                  sentence_tokens |->
                      Bound(SquadSentence(para, q, answer_ids)),
                  sentence |-> w.sentence, question |-> w.question,
                  answer |-> w.answer]

SquadQA(sub_dir, para, q, before) ==
    LET answer_ids == AnswerIds(sub_dir, q)
    IN  IF ~SentStarts(para.spans, para.sentences).ok
        THEN NoLines("IndexError", before)
        ELSE IF answer_ids = 0 THEN NoLines("no_answer", before)
        ELSE IF \E i \in 1..answer_ids : SquadSentence(para, q, i) = <<>>
        THEN NoLines("Exception", Bound(<<>>))
        ELSE LET w == WriteCalls(Join(SquadSentence(para, q, answer_ids)),
                                 Join(q.question),
                                 Join(q.answers[answer_ids].tokens))
             IN  [exit |-> w.exit,
                  sentence_tokens |->
                      Bound(SquadSentence(para, q, answer_ids)),
                  sentence |-> w.sentence, question |-> w.question,
                  answer |-> w.answer]

(***************************************************************************)
(* The file system.  A path is <<directory, split, kind>>, standing for    *)
(* <directory>/<split>/<split>.<kind>.                                     *)
(***************************************************************************)
SplitFiles(dir, sub_dir) == {<<dir, sub_dir, k>> : k \in Kinds}

\* open(path, "w") of every path: created, or truncated when it exists
OpenW(fs, paths) ==
    [p \in DOMAIN fs \cup paths |-> IF p \in paths THEN <<>> ELSE fs[p]]

\* the files after the write calls of one loop body (l.117-119, l.190-192)
\* added the lines of r, which WriteCalls gives call by call
WriteExample(fs, dir, sub_dir, r) ==
    [p \in DOMAIN fs |->
        IF p = <<dir, sub_dir, "sentence">> THEN fs[p] \o r.sentence
        ELSE IF p = <<dir, sub_dir, "question">> THEN fs[p] \o r.question
        ELSE IF p = <<dir, sub_dir, "answer">> THEN fs[p] \o r.answer
        ELSE fs[p]]

Raised(ex) ==
    ex \in {"IndexError", "UnboundLocalError", "Exception",
            "UnicodeEncodeError", "FileNotFoundError"}

\* open(path, "w") creates a file, never a directory: whether the directory
\* of path exists.  It does when the file system holds a file of it
DirExists(fs, path) ==
    \E p \in DOMAIN fs : p[1] = path[1] /\ p[2] = path[2]

(***************************************************************************)
(* concatenate_data (l.198-209).  The files are opened in text mode, in    *)
(* the encoding of the locale, taken to be the utf-8 they were written in, *)
(* and with universal newlines: a read takes "\r", "\n" and "\r\n" alike   *)
(* for the end of a line and returns the line ending with "\n".            *)
(* out_filename is opened for writing, and so emptied, before the first    *)
(* input is read (a write stays in the buffer of outfile until the file is *)
(* closed: every file of the model is smaller than that buffer).           *)
(* random.random() gives every line a key; lines.sort() orders the lines   *)
(* by key.  Keys are drawn distinct: equal keys have probability zero and  *)
(* would order the tied lines by their text, which is one of the orders    *)
(* distinct keys already produce.                                          *)
(***************************************************************************)
\* the lines a read returns for one "\n"-terminated line of a file
RECURSIVE SplitCR(_, _)
SplitCR(line, cur) ==
    IF line = <<>> THEN <<cur>>
    ELSE IF Head(line) = "\r"
         THEN IF Tail(line) = <<>> THEN <<cur>>
              ELSE <<cur>> \o SplitCR(Tail(line), <<>>)
    ELSE SplitCR(Tail(line), Append(cur, Head(line)))

\* for line in infile (l.202, l.205)
RECURSIVE ReadLines(_)
ReadLines(stored) ==
    IF stored = <<>> THEN <<>>
    ELSE SplitCR(Head(stored), <<>>) \o ReadLines(Tail(stored))

\* l.200-203: the lines read from the files of fnames (the parameter
\* filenames), up to the first file that does not exist
RECURSIVE ReadAll(_, _)
ReadAll(fs, fnames) ==
    IF fnames = <<>> THEN <<>>
    ELSE IF Head(fnames) \notin DOMAIN fs THEN <<>>
    ELSE ReadLines(fs[Head(fnames)]) \o ReadAll(fs, Tail(fnames))

\* l.199-203: the lines that the first block leaves in the file out (the
\* parameter out_filename)
Concatenation(fs, fnames, out) == ReadAll(OpenW(fs, {out}), fnames)

RandomKeys(n) == Permutations(1..n)

SortByKey(lines, keys) ==
    [r \in 1..Len(lines) |-> lines[CHOOSE i \in 1..Len(lines) : keys[i] = r]]

ConcatenateData(fs, fnames, out, keys) ==
    LET opened == OpenW(fs, {out})
        written == [opened EXCEPT ![out] = Concatenation(fs, fnames, out)]
    IN  IF \E i \in DOMAIN fnames : fnames[i] \notin DOMAIN opened
        THEN [exit |-> "FileNotFoundError", fs |-> written]
        ELSE [exit |-> "none",
              fs |-> [written EXCEPT
                         ![out] = SortByKey(ReadLines(written[out]), keys)]]

\* the calls of __main__ (l.226-240), in order
MergeCalls ==
    << <<"train", "sentence">>, <<"train", "question">>,
       <<"dev", "sentence">>, <<"dev", "question">> >>

(***************************************************************************)
(* The pipeline: __main__ (l.220-240).                                     *)
(***************************************************************************)
Init ==
    /\ stage = "start"
    /\ files = [p \in {} |-> <<>>]
    /\ sentence_tokens = Unbound
    /\ article = NoInput
    /\ question = NoInput
    /\ paragraph = NoInput
    /\ qa = NoInput
    /\ exit = "none"
    /\ nq = 0
    /\ answer_start = 0
    /\ sent_starts = <<>>
    /\ context_sentences = <<>>
    /\ filenames = <<>>
    /\ out_filename = NoInput

\* NewsQAPreprocessor.split_data, l.142-149: the next split's files open
NewsQAOpen ==
    /\ stage \in {"start", "newsqa_train"}
    /\ LET sub_dir == IF stage = "start" THEN "train" ELSE "dev"
       IN  /\ stage' = IF sub_dir = "train" THEN "newsqa_train"
                       ELSE "newsqa_dev"
           /\ files' = OpenW(files, SplitFiles(NewsqaDir, sub_dir))
    /\ article' = NoInput
    /\ question' = NoInput
    /\ exit' = "none"
    /\ UNCHANGED <<sentence_tokens, paragraph, qa, nq, answer_start,
                   sent_starts, context_sentences, filenames, out_filename>>

\* NewsQAPreprocessor.split_data, l.152-192: one question of one article
NewsQAStep ==
    /\ stage \in {"newsqa_train", "newsqa_dev"}
    /\ nq < MaxQ
    /\ \E art \in NewsQAArticles, qu \in NewsQAQuestions :
          LET sub_dir == IF stage = "newsqa_train" THEN "train" ELSE "dev"
              r == NewsQAQuestion(sub_dir, art, qu, sentence_tokens)
          IN  /\ article' = art
              /\ question' = qu
              /\ exit' = r.exit
              /\ sentence_tokens' = r.sentence_tokens
              /\ files' = WriteExample(files, NewsqaDir, sub_dir, r)
              /\ stage' = IF Raised(r.exit) THEN "aborted" ELSE stage
    /\ nq' = nq + 1
    /\ UNCHANGED <<paragraph, qa, answer_start, sent_starts,
                   context_sentences, filenames, out_filename>>

\* SquadPreprocessor.split_data, l.62-71: the next split's files open; the
\* call starts without a local sentence_tokens
SquadOpen ==
    /\ stage \in {"newsqa_dev", "squad_train"}
    /\ LET sub_dir == IF stage = "newsqa_dev" THEN "train" ELSE "dev"
       IN  /\ stage' = IF sub_dir = "train" THEN "squad_train"
                       ELSE "squad_dev"
           /\ files' = OpenW(files, SplitFiles(SquadDir, sub_dir))
    /\ sentence_tokens' = Unbound
    /\ article' = NoInput
    /\ question' = NoInput
    /\ paragraph' = NoInput
    /\ qa' = NoInput
    /\ exit' = "none"
    /\ UNCHANGED <<nq, answer_start, sent_starts, context_sentences,
                   filenames, out_filename>>

\* SquadPreprocessor.split_data, l.77-119: one qa of one paragraph
SquadStep ==
    /\ stage \in {"squad_train", "squad_dev"}
    /\ nq < MaxQ
    /\ \E para \in SquadParagraphs, q \in SquadQAs :
          LET sub_dir == IF stage = "squad_train" THEN "train" ELSE "dev"
              r == SquadQA(sub_dir, para, q, sentence_tokens)
          IN  /\ paragraph' = para
              /\ qa' = q
              /\ exit' = r.exit
              /\ sentence_tokens' = r.sentence_tokens
              /\ files' = WriteExample(files, SquadDir, sub_dir, r)
              /\ stage' = IF Raised(r.exit) THEN "aborted" ELSE stage
    /\ nq' = nq + 1
    /\ UNCHANGED <<article, question, answer_start, sent_starts,
                   context_sentences, filenames, out_filename>>

MergeStage(n) ==
    IF n = 0 THEN "squad_dev" ELSE IF n = 1 THEN "concat1"
    ELSE IF n = 2 THEN "concat2" ELSE IF n = 3 THEN "concat3" ELSE "done"

\* one call concatenate_data(fnames, out) (l.198-209) that ends in stage
\* next when it returns.  Nothing of the program creates the directory of
\* out: when the file system holds no file of it, it may be there or not,
\* and open(out, "w") of l.199 raises FileNotFoundError when it is not.
CallConcatenateData(fnames, out, next) ==
    /\ filenames' = fnames
    /\ out_filename' = out
    /\ \E dir_exists \in BOOLEAN :
          /\ DirExists(files, out) => dir_exists
          /\ IF ~dir_exists
             THEN /\ exit' = "FileNotFoundError"
                  /\ files' = files
                  /\ stage' = "aborted"
             ELSE \E keys \in
                      RandomKeys(Len(Concatenation(files, fnames, out))) :
                     LET r == ConcatenateData(files, fnames, out, keys)
                     IN  /\ exit' = r.exit
                         /\ files' = r.fs
                         /\ stage' = IF Raised(r.exit) THEN "aborted"
                                     ELSE next

\* __main__, l.226-240: the next call of concatenate_data; split_data has
\* returned and its locals are gone
Concatenate ==
    \E n \in 1..Len(MergeCalls) :
        /\ stage = MergeStage(n - 1)
        /\ LET sub_dir == MergeCalls[n][1]
               kind == MergeCalls[n][2]
           IN  CallConcatenateData(<< <<SquadDir, sub_dir, kind>>,
                                      <<NewsqaDir, sub_dir, kind>> >>,
                                   <<OutDir, sub_dir, kind>>, MergeStage(n))
        /\ sentence_tokens' = Unbound
        /\ paragraph' = NoInput
        /\ qa' = NoInput
        /\ UNCHANGED <<article, question, nq, answer_start, sent_starts,
                       context_sentences>>

Next ==
    \/ NewsQAOpen
    \/ NewsQAStep
    \/ SquadOpen
    \/ SquadStep
    \/ Concatenate

Spec == Init /\ [][Next]_vars

(***************************************************************************)
(* The resolution loop on its own: every list of sentence starts that      *)
(* SentStarts can return (non-decreasing offsets), every answer start and  *)
(* every earlier value of sentence_tokens.                                 *)
(***************************************************************************)
SentencePool == {<< >>, << <<"a">> >>, << <<"b">>, <<".">> >>}

NonDecreasing(starts) ==
    \A i \in 1..(Len(starts) - 1) : starts[i] <= starts[i + 1]

StrictlyIncreasing(starts) ==
    \A i \in 1..(Len(starts) - 1) : starts[i] < starts[i + 1]

InitResolve ==
    /\ stage = "resolve"
    /\ files = [p \in {} |-> <<>>]
    /\ article = NoInput
    /\ question = NoInput
    /\ paragraph = NoInput
    /\ qa = NoInput
    /\ exit = "none"
    /\ nq = 0
    /\ answer_start \in -1..(MaxOff + 1)
    /\ \E n \in 0..MaxSents :
          /\ sent_starts \in {st \in [1..n -> 0..MaxOff] : NonDecreasing(st)}
          /\ context_sentences \in [1..n -> SentencePool]
    /\ sentence_tokens \in {Unbound} \cup {Bound(v) : v \in SentencePool}
    /\ filenames = <<>>
    /\ out_filename = NoInput

\* l.107-111 / l.175-179
Resolve ==
    /\ stage = "resolve"
    /\ stage' = "resolved"
    /\ sentence_tokens' =
          ResolveLoop(answer_start, sent_starts, context_sentences,
                      sentence_tokens)
    /\ UNCHANGED <<files, article, question, paragraph, qa, exit, nq,
                   answer_start, sent_starts, context_sentences,
                   filenames, out_filename>>

NextResolve == Resolve

SpecResolve == InitResolve /\ [][NextResolve]_vars

(***************************************************************************)
(* concatenate_data on its own (l.198-209): input files of newline-        *)
(* terminated lines, every list of one or two of them, and an              *)
(* out_filename that is a new file, a file that exists, or one of the      *)
(* input files; one list names a file that does not exist.                 *)
(***************************************************************************)
LinePool == {<<"a">>, <<"b">>, <<"a", "\r", "b">>}

FileA == <<SquadDir, "train", "sentence">>
FileB == <<NewsqaDir, "train", "sentence">>
FileOut == <<OutDir, "train", "sentence">>
FileMissing == <<NewsqaDir, "dev", "sentence">>

InitConcat ==
    /\ stage = "concatenate"
    /\ \E a \in UNION {[1..n -> LinePool] : n \in 0..MaxLines},
          b \in UNION {[1..n -> LinePool] : n \in 0..1},
          old \in {<<>>, << <<"b">> >>} :
          files \in {[p \in {FileA, FileB} |-> IF p = FileA THEN a ELSE b],
                     [p \in {FileA, FileB, FileOut} |->
                         IF p = FileA THEN a
                         ELSE IF p = FileB THEN b ELSE old]}
    /\ filenames \in {<<FileA>>, <<FileA, FileB>>, <<FileB, FileA>>,
                      <<FileA, FileMissing>>}
    /\ out_filename \in {FileOut, FileA, FileB}
    /\ sentence_tokens = Unbound
    /\ article = NoInput
    /\ question = NoInput
    /\ paragraph = NoInput
    /\ qa = NoInput
    /\ exit = "none"
    /\ nq = 0
    /\ answer_start = 0
    /\ sent_starts = <<>>
    /\ context_sentences = <<>>

\* concatenate_data(filenames, out_filename), l.198-209
ConcatenateCall ==
    /\ stage = "concatenate"
    /\ CallConcatenateData(filenames, out_filename, "concatenated")
    /\ UNCHANGED <<sentence_tokens, article, question, paragraph, qa, nq,
                   answer_start, sent_starts, context_sentences>>

NextConcat == ConcatenateCall

SpecConcat == InitConcat /\ [][NextConcat]_vars

(***************************************************************************)
(* Vocabulary of the properties.                                           *)
(***************************************************************************)
Count(seq, x) == Cardinality({i \in DOMAIN seq : seq[i] = x})

Range(seq) == {seq[i] : i \in DOMAIN seq}

SameMultiset(a, b) ==
    /\ Len(a) = Len(b)
    /\ \A x \in Range(a) \cup Range(b) : Count(a, x) = Count(b, x)

\* the lines of two files read index by index
Zip(a, b) == [i \in 1..Min(Len(a), Len(b)) |-> <<a[i], b[i]>>]

\* the sentences whose start is at or before offset a, and the last of them
Covering(starts, a) == {i \in 1..Len(starts) : starts[i] <= a}
LastCovering(starts, a) ==
    CHOOSE i \in Covering(starts, a) : \A j \in Covering(starts, a) : j <= i

\* answer a of a SQuAD paragraph has a non-empty supporting sentence
Resolves(para, a) ==
    LET ss == SentStarts(para.spans, para.sentences)
    IN  /\ ss.ok
        /\ Covering(ss.starts, a.answer_start) # {}
        /\ para.sentences[LastCovering(ss.starts, a.answer_start)] # <<>>

SupportingSentence(para, a) ==
    para.sentences[LastCovering(SentStarts(para.spans, para.sentences).starts,
                                a.answer_start)]

\* the files of a split after exactly one example was added to each
OneExampleAdded(dir, sub_dir, sentence, qtext, answer) ==
    /\ DOMAIN files' = DOMAIN files
    /\ \A p \in DOMAIN files :
          files'[p] =
             IF p = <<dir, sub_dir, "sentence">> THEN Append(files[p], sentence)
             ELSE IF p = <<dir, sub_dir, "question">>
                  THEN Append(files[p], qtext)
             ELSE IF p = <<dir, sub_dir, "answer">>
                  THEN Append(files[p], answer)
             ELSE files[p]

\* the lines of the files of a list, file after file
RECURSIVE InputLines(_, _)
InputLines(fs, fnames) ==
    IF fnames = <<>> THEN <<>>
    ELSE fs[Head(fnames)] \o InputLines(fs, Tail(fnames))

SquadBodyRan == stage \in {"squad_train", "squad_dev"} /\ nq' = nq + 1
NewsQABodyRan == stage \in {"newsqa_train", "newsqa_dev"} /\ nq' = nq + 1
NewsQASubDir == IF stage = "newsqa_train" THEN "train" ELSE "dev"

(***************************************************************************)
(* Properties.                                                             *)
(***************************************************************************)

\* C1: once the merge stage is over, the merged sentence and question files
\* of a split, read index by index, hold the same multiset of
\* (sentence, question) pairs as the per-corpus files they were merged from.
C1_MergeKeepsPairs ==
    stage = "done" =>
        \A sub_dir \in Splits :
            LET src(kind) ==
                    InputLines(files, << <<SquadDir, sub_dir, kind>>,
                                         <<NewsqaDir, sub_dir, kind>> >>)
                out(kind) == files[<<OutDir, sub_dir, kind>>]
            IN  /\ Len(out("sentence")) = Len(out("question"))
                /\ SameMultiset(Zip(out("sentence"), out("question")),
                                Zip(src("sentence"), src("question")))

\* C2: between two examples of an extraction, and when a run has aborted,
\* the sentence, question and answer files of every split written so far
\* hold the same number of lines.
C2_SplitFilesSameLength ==
    stage \in {"newsqa_train", "newsqa_dev", "squad_train", "squad_dev",
               "aborted"} =>
        \A dir \in {NewsqaDir, SquadDir}, sub_dir \in Splits :
            <<dir, sub_dir, "sentence">> \in DOMAIN files =>
                /\ Len(files[<<dir, sub_dir, "sentence">>])
                      = Len(files[<<dir, sub_dir, "question">>])
                /\ Len(files[<<dir, sub_dir, "question">>])
                      = Len(files[<<dir, sub_dir, "answer">>])

\* C3: a complete run leaves, for each split, the merged sentence, question
\* and answer files in the output directory, all three of the same length.
C3_AllMergedFilesWritten ==
    stage = "done" =>
        \A sub_dir \in Splits :
            /\ SplitFiles(OutDir, sub_dir) \subseteq DOMAIN files
            /\ \A k1, k2 \in Kinds :
                  Len(files[<<OutDir, sub_dir, k1>>])
                     = Len(files[<<OutDir, sub_dir, k2>>])

\* C4: for strictly increasing sentence starts whose first start is at or
\* before the answer start, the resolution loop leaves in sentence_tokens
\* the sentence of the greatest index whose start is <= the answer start.
C4_ResolvesLastCovering ==
    (/\ stage = "resolved"
     /\ sent_starts # <<>>
     /\ StrictlyIncreasing(sent_starts)
     /\ sent_starts[1] <= answer_start)
    => sentence_tokens =
          Bound(context_sentences[LastCovering(sent_starts, answer_start)])

\* C4 witness: two sentences, the answer starts in the second one, which
\* differs from the first and was selected.
C4_Witness ==
    /\ stage = "resolved"
    /\ Len(sent_starts) = 2
    /\ sent_starts[1] < sent_starts[2]
    /\ sent_starts[2] <= answer_start
    /\ context_sentences[1] # context_sentences[2]
    /\ sentence_tokens = Bound(context_sentences[2])

\* C5: in SQuAD extraction, when a selected answer (train: the first one,
\* dev: any of them) has no sentence start <= its answer_start or resolves
\* to an empty token group, the body writes nothing and the run aborts;
\* an aborted run never writes again.
C5_SquadNotFoundAborts ==
    [][/\ (/\ SquadBodyRan
           /\ \E i \in 1..Len(qa'.answers) :
                 /\ (stage = "squad_train" => i = 1)
                 /\ ~Resolves(paragraph', qa'.answers[i]))
          => (stage' = "aborted" /\ files' = files)
       /\ stage = "aborted" => (stage' = "aborted" /\ files' = files)]_vars

\* C5 witness: a SQuAD run aborted by the resolver's exception after an
\* earlier question had written its line, which is still in the file.
C5_Witness ==
    /\ stage = "aborted"
    /\ exit = "Exception"
    /\ qa # NoInput
    /\ \E i \in 1..Len(qa.answers) : ~Resolves(paragraph, qa.answers[i])
    /\ Len(files[<<SquadDir, "train", "sentence">>]) = 1

\* C6: in the SQuAD training split every question with at least one
\* answer adds exactly one example, built from its first answer (that
\* answer's tokens and the sentence resolved from its answer_start), and a
\* question without answers adds nothing.  Stated for the questions whose
\* first answer resolves to a non-empty sentence, the ones the resolver
\* does not refuse.
C6_TrainFirstAnswer ==
    [][(stage = "squad_train" /\ nq' = nq + 1) =>
          /\ qa'.answers = <<>> => files' = files
          /\ (qa'.answers # <<>> /\ Resolves(paragraph', qa'.answers[1])) =>
                OneExampleAdded(SquadDir, "train",
                   Join(SupportingSentence(paragraph', qa'.answers[1])),
                   Join(qa'.question), Join(qa'.answers[1].tokens))]_vars

\* C7: gate (a) of the NewsQA extraction excludes a question exactly when
\* isQuestionBad is nonzero or it has no consensus span; a question with
\* isQuestionBad = 0 and a span starting at any s >= 0 passes the gate.
C7_GateExcludesOnlyBadOrSpanless ==
    (question # NoInput /\ exit # "other_split") =>
        (exit = "gate" <=>
            (\/ question.isQuestionBad # 0
             \/ ~("s" \in DOMAIN question.consensus)))

\* C8: a NewsQA question whose text, trimmed, does not end with "?"
\* (empty and whitespace-only texts included) is skipped silently: no line
\* is written, no exception is raised and the extraction goes on.
C8_NonQuestionSkipped ==
    [][(/\ NewsQABodyRan
        /\ LET q == Strip(question'.q, Whitespace)
           IN  q = <<>> \/ q[Len(q)] # "?")
       => (files' = files /\ stage' = stage /\ ~Raised(exit'))]_vars

\* C9: a NewsQA question of the running split that passes the filters and
\* whose answer start is below every sentence start of its article aborts
\* the run without a line, whatever was processed before it.
C9_NewsQANotFoundAborts ==
    [][(/\ NewsQABodyRan
        /\ article'.type = NewsQASubDir
        /\ PassesGate(question')
        /\ LET q == Strip(question'.q, Whitespace)
           IN  q # <<>> /\ q[Len(q)] = "?"
        /\ Covering(SentStarts(article'.spans, article'.sentences).starts,
                    question'.consensus.s) = {})
       => (stage' = "aborted" /\ files' = files)]_vars

\* C10: in the SQuAD dev split a question with n >= 1 answers that all
\* resolve adds exactly one line to each file, with the answer tokens and
\* the resolved sentence of the last answer; a question without answers
\* adds nothing.
C10_DevLastAnswer ==
    [][(stage = "squad_dev" /\ nq' = nq + 1) =>
          /\ qa'.answers = <<>> => files' = files
          /\ (/\ qa'.answers # <<>>
              /\ \A i \in 1..Len(qa'.answers) :
                    Resolves(paragraph', qa'.answers[i])) =>
                LET last == qa'.answers[Len(qa'.answers)]
                IN  OneExampleAdded(SquadDir, "dev",
                       Join(SupportingSentence(paragraph', last)),
                       Join(qa'.question), Join(last.tokens))]_vars

\* C11: a call of concatenate_data that returns leaves in out_filename a
\* permutation of the concatenation of its input files: the same lines
\* with the same multiplicities, so as many lines as the inputs hold
\* together, none lost, duplicated or altered.
C11_OutputIsPermutation ==
    [][(stage = "concatenate" /\ stage' = "concatenated") =>
          SameMultiset(files'[out_filename],
                       InputLines(files, filenames))]_vars

\* C12: the answer written for a NewsQA question is the context slice
\* [s, e) without its trailing periods, pipes, spaces and newlines: it does
\* not end with one of these characters and nothing else was removed, that
\* is, it is the slice minus its longest suffix of such characters.
C12_AnswerIsSliceRightStripped ==
    [][(NewsQABodyRan /\ exit' = "written") =>
          files'[<<NewsqaDir, NewsQASubDir, "answer">>]
             = files[<<NewsqaDir, NewsQASubDir, "answer">>]
                  \o WriteLn(RStrip(Slice(article'.text,
                                          question'.consensus.s,
                                          question'.consensus.e),
                                    {".", "|", " ", "\n"})).lines]_vars

====
